---- MODULE Spec2Model ----
(***************************************************************************)
(* Model of the PSSE G7/4 fault-study scripts (g74/psse.py).               *)
(*                                                                         *)
(* The simulation engine (psspy) is opaque: every call into it returns a   *)
(* status code (and possibly a value) chosen nondeterministically from a   *)
(* bounded range.  A method of the program is an operator that takes the   *)
(* object's fields and the engine's answers ("e") and computes, as the     *)
(* code does, the engine calls made, the exception raised (if any) and the *)
(* new values of the fields.  One action per public method applies it.     *)
(***************************************************************************)
EXTENDS Integers, Sequences, FiniteSets, TLC

\* ---------------------------------------------------------------- bounds
\* Status codes returned by an engine call range over 0..MaxStatus.
MaxStatus == 1
\* Status codes returned by the generator conversion (cong): 0..5 are the
\* codes the code distinguishes.
CongMaxStatus == 5
\* Number of loads the engine can report as still unconverted.
MaxLoads == 1
\* Number of induction machines the engine can report.
MaxInd == 1
\* Number of answers the engine has ready for the apply step of conl.
ScriptLen == 5
\* SAV case paths: directories and file names.
NumDirs == 2
NumNames == 1
\* Distinct contents of an array returned by a query of the engine.
MaxData == 2

Status == 0..MaxStatus
CongStatus == 0..CongMaxStatus

\* the largest number of numbered copies name(1)..name(n) a workbook starts with
MaxSheets == 102

\* the largest number of characters typed in the fault-times entry box
MaxText == 3

\* the largest number of entries in the first column of the busbar spreadsheet
MaxRows == 3

\* the largest number of fault times in a study request
MaxTimes == 2
\* the largest number of machines the engine returns for the idev file
MaxMachines == 2
\* the largest number of busbars the engine returns
MaxBuses == 1
\* the largest X/R ratio the equivalent machine is derived for, in hundredths
MaxRatio == 300
\* The most loads of a case that qualify for an equivalent machine
MaxEmbedded == 1

\* ------------------------------------------------------------- plumbing
\* A call into the engine: function name, apiopt (0 when the function has
\* none), returned status and returned value (0 when there is none).
Call(f, opt, ierr, val) == [f |-> f, opt |-> opt, ierr |-> ierr, val |-> val]

\* No exception: the method returned normally.
NoExc == "none"

\* The value of an attribute or return value that holds no data.
NoValue == -2

\* Positions of the calls of function f (with apiopt opt) in a call sequence.
CallIdx(calls, f, opt) == {k \in 1..Len(calls) : calls[k].f = f /\ calls[k].opt = opt}
FnIdx(calls, f) == {k \in 1..Len(calls) : calls[k].f = f}

\* No object of the query classes has been built yet.
NoObject == [cls |-> "none"]

\* ------------------------------------------------------- InductionData
\* InductionData.__init__: count = -1
InductionData_init == [cls |-> "InductionData", count |-> -1]

\* InductionData.get_count(reset): e = [ierr, number] is aindmaccount's answer
get_count(self, reset, e) ==
    IF self.count = -1 \/ reset
    THEN LET calls == <<Call("aindmaccount", 0, e.ierr, e.number)>> IN
         IF e.ierr > 0
         THEN [calls |-> calls, exc |-> "SyntaxError", ret |-> NoValue, self |-> self]
         ELSE [calls |-> calls, exc |-> NoExc, ret |-> e.number,
               self |-> [self EXCEPT !.count = e.number]]
    ELSE [calls |-> <<>>, exc |-> NoExc, ret |-> self.count, self |-> self]

IndAnswers == [ierr : Status, number : 0..MaxInd]

\* --------------------------------------------------------- PsseControl
\* convert_gen with statuses 3 and 4 of cong logged but not raised
convert_gen_log_only(self, e) ==
    LET r == get_count(InductionData_init, FALSE, e.ind) IN
    IF r.exc # NoExc
    THEN [calls |-> r.calls, exc |-> r.exc, self |-> self]
    ELSE LET self1 == IF r.ret > 0 THEN [self EXCEPT !.bkdy_issue = TRUE] ELSE self
             calls == Append(r.calls, Call("cong", 0, e.cong, 0))
         IN  IF e.cong = 1 \/ e.cong = 5
             THEN [calls |-> calls, exc |-> "AttributeError", self |-> self1]
             ELSE [calls |-> calls, exc |-> NoExc, self |-> self1]

\* convert_gen without the assignment to bkdy_issue
convert_gen_no_flag(self, e) ==
    LET r == get_count(InductionData_init, FALSE, e.ind) IN
    IF r.exc # NoExc
    THEN [calls |-> r.calls, exc |-> r.exc, self |-> self]
    ELSE LET calls == Append(r.calls, Call("cong", 0, e.cong, 0))
         IN  IF e.cong = 1 \/ e.cong = 5
             THEN [calls |-> calls, exc |-> "AttributeError", self |-> self]
             ELSE IF e.cong = 3 \/ e.cong = 4
             THEN [calls |-> calls, exc |-> "ValueError", self |-> self]
             ELSE [calls |-> calls, exc |-> NoExc, self |-> self]

\* PsseControl.convert_gen: e = [ind : aindmaccount's answer, cong : status]
convert_gen(self, e) ==
    LET r == get_count(InductionData_init, FALSE, e.ind) IN
    IF r.exc # NoExc
    THEN [calls |-> r.calls, exc |-> r.exc, self |-> self]
    ELSE LET self1 == IF r.ret > 0 THEN [self EXCEPT !.bkdy_issue = TRUE] ELSE self
             calls == Append(r.calls, Call("cong", 0, e.cong, 0))
         IN  IF e.cong = 1 \/ e.cong = 5
             \* logger.critical(...) returns None and None.format raises
             THEN [calls |-> calls, exc |-> "AttributeError", self |-> self1]
             ELSE IF e.cong = 2
             THEN [calls |-> calls, exc |-> NoExc, self |-> self1]
             ELSE IF e.cong = 3 \/ e.cong = 4
             THEN [calls |-> calls, exc |-> "ValueError", self |-> self1]
             ELSE [calls |-> calls, exc |-> NoExc, self |-> self1]

GenAnswers == [ind : IndAnswers, cong : CongStatus]

\* The while loop of convert_load: i iterations done, unconverted_loads left.
RECURSIVE convert_load_loop(_, _, _, _)
convert_load_loop(e, i, unconverted_loads, calls) ==
    IF unconverted_loads > 0
    THEN LET i1 == i + 1
             a == e.apply[i1]
             calls1 == Append(calls, Call("conl", 2, a.ierr, a.unconv))
         IN  IF a.ierr > 0
             THEN [calls |-> calls1, exc |-> "ValueError"]
             ELSE IF i1 > 3
             THEN [calls |-> calls1, exc |-> "SyntaxError"]
             ELSE convert_load_loop(e, i1, a.unconv, calls1)
    ELSE [calls |-> calls, exc |-> NoExc]

\* convert_load without the check of the initialise call's status
convert_load_no_check(e) ==
    LET calls1 == <<Call("conl", 1, e.init, 0)>>
        l == convert_load_loop(e, 0, 1, calls1)
    IN  IF l.exc # NoExc
        THEN l
        ELSE LET calls3 == Append(l.calls, Call("conl", 3, e.fin, 0)) IN
             IF e.fin > 0
             THEN [calls |-> calls3, exc |-> "ValueError"]
             ELSE [calls |-> calls3, exc |-> NoExc]

\* PsseControl.convert_load: e = [init : status, apply : answers, fin : status]
convert_load(e) ==
    LET calls1 == <<Call("conl", 1, e.init, 0)>> IN
    IF e.init > 0
    THEN [calls |-> calls1, exc |-> "ValueError"]
    ELSE LET l == convert_load_loop(e, 0, 1, calls1) IN
         IF l.exc # NoExc
         THEN l
         ELSE LET calls3 == Append(l.calls, Call("conl", 3, e.fin, 0)) IN
              IF e.fin > 0
              THEN [calls |-> calls3, exc |-> "ValueError"]
              ELSE [calls |-> calls3, exc |-> NoExc]

ApplyAnswers == [ierr : Status, unconv : 0..MaxLoads]
LoadAnswers == [init : Status, apply : [1..ScriptLen -> ApplyAnswers], fin : Status]

\* The runs of convert_load the engine's answers allow.
ConvertLoadRuns == {convert_load(e) : e \in LoadAnswers}

\* A path of a SAV case: directory and file name (without extension).
Paths == [dir : 1..NumDirs, name : 1..NumNames]
\* str(): the empty path, whose file name is empty too
EmptyStr == [dir |-> 0, name |-> 0]
\* The default of load_data_case's argument.
None == [dir |-> -1, name |-> -1]

\* os.path.splitext(os.path.basename(pth))[0]
basename(pth) == pth.name

\* InitialisePsspy.change_output: the four statuses are discarded
change_output ==
    <<Call("report_output", 0, 0, 0), Call("progress_output", 0, 0, 0),
      Call("alert_output", 0, 0, 0), Call("prompt_output", 0, 0, 0)>>

\* InitialisePsspy().initialise_psse() as load_data_case runs it when the
\* global psspy is not bound: e = [import_ok, psseinit]
initialise_psse(e) ==
    IF ~e.import_ok
    \* self.psspy is None and None.psseinit raises
    THEN [calls |-> <<>>, exc |-> "AttributeError", psspy |-> FALSE]
    ELSE LET calls == <<Call("psseinit", 0, e.psseinit, 0)>> IN
         IF e.psseinit # 0
         THEN [calls |-> calls, exc |-> "RuntimeError", psspy |-> TRUE]
         ELSE [calls |-> calls \o change_output, exc |-> NoExc, psspy |-> TRUE]

\* PsseControl.set_load_flow_tolerances: a status above zero is only a warning
set_load_flow_tolerances(ierr) == <<Call("solution_parameters_4", 0, ierr, 0)>>

\* load_data_case without the assignment converted = False
load_data_case_no_reset(self, psspy, pth_sav, e) ==
    LET ini == IF psspy
               THEN [calls |-> <<>>, exc |-> NoExc, psspy |-> TRUE]
               ELSE initialise_psse(e)
    IN  IF ini.exc # NoExc
        THEN [calls |-> ini.calls, exc |-> ini.exc, self |-> self, psspy |-> ini.psspy]
        ELSE LET self1 == IF pth_sav = None
                          THEN self
                          ELSE [self EXCEPT !.sav = pth_sav, !.sav_name = basename(pth_sav)]
                 calls == Append(ini.calls, Call("case", 0, e.case, 0))
             IN  IF e.case > 0
                 THEN [calls |-> calls, exc |-> "ValueError", self |-> self1, psspy |-> TRUE]
                 ELSE [calls |-> calls \o set_load_flow_tolerances(e.solpar),
                       exc |-> NoExc, self |-> self1, psspy |-> TRUE]

\* PsseControl.load_data_case(pth_sav):
\* e = [import_ok, psseinit, case, solpar], psspy = the global is bound
load_data_case(self, psspy, pth_sav, e) ==
    LET ini == IF psspy
               THEN [calls |-> <<>>, exc |-> NoExc, psspy |-> TRUE]
               ELSE initialise_psse(e)
    IN  IF ini.exc # NoExc
        THEN [calls |-> ini.calls, exc |-> ini.exc, self |-> self, psspy |-> ini.psspy]
        ELSE LET pth == IF pth_sav = None THEN self.sav ELSE pth_sav
                 self1 == IF pth_sav = None
                          THEN self
                          ELSE [self EXCEPT !.sav = pth_sav, !.sav_name = basename(pth_sav)]
                 calls == Append(ini.calls, Call("case", 0, e.case, 0))
             IN  IF e.case > 0
                 THEN [calls |-> calls, exc |-> "ValueError", self |-> self1, psspy |-> TRUE]
                 ELSE [calls |-> calls \o set_load_flow_tolerances(e.solpar),
                       exc |-> NoExc,
                       self |-> [self1 EXCEPT !.converted = FALSE], psspy |-> TRUE]

CaseAnswers == [import_ok : BOOLEAN, psseinit : Status, case : Status, solpar : Status]

\* ------------------------------------------------------------- state
VARIABLES
    psspy,       \* the module global psspy is bound (the engine is imported)
    sav,         \* PsseControl.sav
    sav_name,    \* PsseControl.sav_name
    converted,   \* PsseControl.converted
    bkdy_issue,  \* PsseControl.bkdy_issue
    obj,         \* the BusData, MachineData or InductionData object in hand
    pc,          \* where the method in progress stands ("idle": none in progress)
    study,       \* the run of bkdy_study: position, request and what it has done
    idev,        \* the content of the idev file
    wkbk,        \* the sheets of the Excel workbook being written
    column,      \* the first column of the busbar spreadsheet
    gui,         \* the fields of MainGUI
    last         \* the last method run: name, engine calls, exception, fields before

ctlVars == <<psspy, sav, sav_name, converted, bkdy_issue>>
qryVars == <<obj>>
auxVars == <<study, idev, wkbk, column, gui>>
vars == <<psspy, sav, sav_name, converted, bkdy_issue, obj, pc, study, idev, wkbk, column, gui, last>>

\* The fields of the PsseControl object.
Self == [sav |-> sav, sav_name |-> sav_name, converted |-> converted, bkdy_issue |-> bkdy_issue]

\* PsseControl.__init__
PsseControl_init == [sav |-> EmptyStr, sav_name |-> 0, converted |-> FALSE, bkdy_issue |-> FALSE]

SetSelf(s) ==
    /\ sav' = s.sav
    /\ sav_name' = s.sav_name
    /\ converted' = s.converted
    /\ bkdy_issue' = s.bkdy_issue

Record(op, arg, r, ret, pre) ==
    [op |-> op, arg |-> arg, calls |-> r.calls, exc |-> r.exc, ret |-> ret, pre |-> pre]

\* ----------------------------------------------------------- BusData
Data == 1..MaxData
\* pd.DataFrame(): no rows and no columns
Empty == <<>>

\* BusData.__init__ before it calls update
BusData_init == [cls |-> "BusData", df_state |-> Empty, df_voltage |-> Empty, df_limits_empty |-> TRUE]

\* BusData.get_voltages: e = [ierr, nominal, voltage] is abusreal's answer
get_voltages(e) ==
    LET calls == <<Call("abusreal", 0, e.ierr, 0)>> IN
    IF e.ierr > 0
    THEN [calls |-> calls, exc |-> "SyntaxError", ret |-> NoValue]
    ELSE [calls |-> calls, exc |-> NoExc, ret |-> <<e.nominal, e.voltage>>]

\* constants.SHEPD.steady_state_limits as the frame df_limits holds it: a row
\* per bracket of nominal voltages (kV), with the limits (per unit) as the
\* fractions <<numerator, denominator>> the table gives them as
steady_state_limits ==
    <<[nominal_lower |-> 109, nominal_upper |-> 111,
       lower_limit |-> <<99, 110>>, upper_limit |-> <<120, 110>>],
      [nominal_lower |-> 219, nominal_upper |-> 221,
       lower_limit |-> <<200, 220>>, upper_limit |-> <<240, 220>>],
      [nominal_lower |-> 250, nominal_upper |-> 276,
       lower_limit |-> <<250, 275>>, upper_limit |-> <<303, 275>>],
      [nominal_lower |-> 379, nominal_upper |-> 401,
       lower_limit |-> <<360, 380>>, upper_limit |-> <<410, 380>>]>>
\* The value of a cell of a limit column that no assignment has reached (NaN)
NoLimit == <<0, 0>>
\* The nominal voltages the busbars of a case are given: the upper bound of
\* every bracket, the lower bound of the first and a voltage above all of them
Voltages ==
    {steady_state_limits[j].nominal_upper : j \in DOMAIN steady_state_limits}
    \cup {steady_state_limits[1].nominal_lower,
          steady_state_limits[Len(steady_state_limits)].nominal_upper + 1}
Nominals == UNION {[1..n -> Voltages] : n \in 1..MaxBuses}

\* The mask with both bounds of the bracket included
bracket_mask_closed(nominal, row) == nominal >= row.nominal_lower /\ nominal <= row.nominal_upper

\* (df[c.nominal] > row[c.nominal_lower]) & (df[c.nominal] <= row[c.nominal_upper])
\* for one busbar
bracket_mask(nominal, row) == nominal > row.nominal_lower /\ nominal <= row.nominal_upper

\* for i, row in self.df_limits.iterrows(): the two assignments through the
\* mask; limits holds the two limit columns
RECURSIVE iterrows(_, _, _)
iterrows(rows, nominal, limits) ==
    IF rows = <<>>
    THEN limits
    ELSE LET row == Head(rows) IN
         iterrows(Tail(rows), nominal,
                  [lower_limit |-> [k \in DOMAIN nominal |->
                                      IF bracket_mask(nominal[k], row) THEN row.lower_limit
                                      ELSE limits.lower_limit[k]],
                   upper_limit |-> [k \in DOMAIN nominal |->
                                      IF bracket_mask(nominal[k], row) THEN row.upper_limit
                                      ELSE limits.upper_limit[k]]])

\* BusData.add_voltage_limits(df=self.df_voltage): the two limit columns are
\* added to the frame; c is bound only when df_limits was empty
add_voltage_limits(self) ==
    IF self.df_limits_empty
    THEN LET nominal == self.df_voltage[3]
             limits == iterrows(steady_state_limits, nominal,
                                [lower_limit |-> [k \in DOMAIN nominal |-> NoLimit],
                                 upper_limit |-> [k \in DOMAIN nominal |-> NoLimit]])
         IN  [exc |-> NoExc,
              self |-> [self EXCEPT !.df_limits_empty = FALSE,
                                    !.df_voltage = @ \o <<limits.lower_limit, limits.upper_limit>>]]
    ELSE [exc |-> "UnboundLocalError", self |-> self]

\* BusData.update with only the status of abusint checked
BusData_update_int_only(self, e) ==
    LET calls == <<Call("abusint", 0, e.int.ierr, 0), Call("abuschar", 0, e.char.ierr, 0)>> IN
    IF e.int.ierr > 0
    THEN [calls |-> calls, exc |-> "SyntaxError", self |-> self]
    ELSE LET v == get_voltages(e.real) IN
         IF v.exc # NoExc
         THEN [calls |-> calls \o v.calls, exc |-> v.exc, self |-> self]
         ELSE LET self1 == [self EXCEPT
                              !.df_state = <<e.int.iarray, e.char.carray, v.ret[1]>>,
                              !.df_voltage = <<e.int.iarray, e.char.carray, v.ret[1], v.ret[2]>>]
                  a == add_voltage_limits(self1)
              IN  [calls |-> calls \o v.calls, exc |-> a.exc, self |-> a.self]

\* BusData.update: e = [int : [ierr, iarray], char : [ierr, carray], real]
BusData_update(self, e) ==
    LET calls == <<Call("abusint", 0, e.int.ierr, 0), Call("abuschar", 0, e.char.ierr, 0)>> IN
    IF e.int.ierr > 0 \/ e.char.ierr > 0
    THEN [calls |-> calls, exc |-> "SyntaxError", self |-> self]
    ELSE LET v == get_voltages(e.real) IN
         IF v.exc # NoExc
         THEN [calls |-> calls \o v.calls, exc |-> v.exc, self |-> self]
         ELSE LET self1 == [self EXCEPT
                              !.df_state = <<e.int.iarray, e.char.carray, v.ret[1]>>,
                              !.df_voltage = <<e.int.iarray, e.char.carray, v.ret[1], v.ret[2]>>]
                  a == add_voltage_limits(self1)
              IN  [calls |-> calls \o v.calls, exc |-> a.exc, self |-> a.self]

BusAnswers == [int : [ierr : Status, iarray : Data], char : [ierr : Status, carray : Data],
               real : [ierr : Status, nominal : Nominals, voltage : Data]]

\* -------------------------------------------------------- MachineData
\* MachineData.__init__
MachineData_init == [cls |-> "MachineData", df |-> Empty]

\* MachineData.update: e = [int, real, char : [ierr, array]]
MachineData_update(self, e) ==
    LET calls == <<Call("amachint", 0, e.int.ierr, 0), Call("amachreal", 0, e.real.ierr, 0),
                   Call("amachchar", 0, e.char.ierr, 0)>> IN
    IF e.int.ierr > 0 \/ e.char.ierr > 0 \/ e.real.ierr > 0
    THEN [calls |-> calls, exc |-> "SyntaxError", self |-> self]
    ELSE [calls |-> calls, exc |-> NoExc,
          self |-> [self EXCEPT !.df = <<e.int.array, e.real.array, e.char.array>>]]

MachineAnswers == [int : [ierr : Status, array : Data], real : [ierr : Status, array : Data],
                   char : [ierr : Status, array : Data]]

\* ------------------------------------------------------------ actions
\* bkdy_study has not been called
Study_init ==
    [pc |-> "none", breaker_duty_file |-> "", fault_times |-> <<>>, reload_sav |-> FALSE,
     sav_case |-> EmptyStr, embedded |-> 0, trace |-> <<>>]
\* No file exists at the target path; lines are the lines ended by a newline,
\* each the sequence of its comma-separated fields, and tail is what was
\* written after the last newline.
NoFile == [exists |-> FALSE, lines |-> <<>>, tail |-> <<>>]
\* A new xlsxwriter workbook has no sheets.
Workbook_init == [sheets |-> {}, cells |-> {}]
\* MainGUI.__init__: fault_times = list(), nothing typed in the entry box
\* constants.GUI.default_fault_times: the text the entry box starts with
default_fault_times == <<"1", ",", "1">>
\* MainGUI.__init__: fault_times = list(); add_entry_fault_times sets the text;
\* master.mainloop() shows the window
\* constants.GUI.reload_sav_case and constants.GUI.open_excel: the values the
\* tick boxes start with
reload_sav_case == TRUE
open_excel == FALSE
\* add_reload_sav and add_open_excel set the two BooleanVars
MainGUI_init ==
    [var_fault_times_list |-> default_fault_times, fault_times |-> <<>>, mainloop |-> TRUE,
     bo_reload_sav |-> reload_sav_case, bo_open_excel |-> open_excel]

Init ==
    /\ psspy = FALSE
    /\ sav = PsseControl_init.sav
    /\ sav_name = PsseControl_init.sav_name
    /\ converted = PsseControl_init.converted
    /\ bkdy_issue = PsseControl_init.bkdy_issue
    /\ obj = NoObject
    /\ pc = "idle"
    /\ study = Study_init
    /\ idev = NoFile
    /\ wkbk = Workbook_init
    /\ column = <<>>
    /\ gui = MainGUI_init
    /\ last = [op |-> "init", arg |-> None, calls |-> <<>>, exc |-> NoExc,
               ret |-> NoValue, pre |-> PsseControl_init]

\* psse.load_data_case(pth_sav), with or without a path
Do_load_data_case ==
    /\ pc = "idle"
    /\ pc' = "idle"
    /\ \E pth_sav \in Paths \cup {None}, e \in CaseAnswers :
       LET r == load_data_case(Self, psspy, pth_sav, e) IN
       /\ SetSelf(r.self)
       /\ psspy' = r.psspy
       /\ last' = Record("load_data_case", pth_sav, r, NoValue, Self)
       /\ UNCHANGED <<qryVars, auxVars>>

\* save_data_case storing the path it is given, as load_data_case does
save_data_case_storing_path(self, pth_sav, ierr) ==
    LET self1 == IF pth_sav = None
                 THEN self
                 ELSE [self EXCEPT !.sav = pth_sav, !.sav_name = basename(pth_sav)]
        calls == <<Call("save", 0, ierr, 0)>>
    IN  IF ierr > 0
        THEN [calls |-> calls, exc |-> "ValueError", self |-> self1]
        ELSE [calls |-> calls, exc |-> NoExc, self |-> self1]

\* PsseControl.save_data_case(pth_sav): ierr is the status of psspy.save
save_data_case(self, pth_sav, ierr) ==
    LET pth == IF pth_sav = None THEN self.sav ELSE pth_sav
        calls == <<Call("save", 0, ierr, 0)>>
    IN  IF ierr > 0
        THEN [calls |-> calls, exc |-> "ValueError", self |-> self]
        ELSE [calls |-> calls, exc |-> NoExc, self |-> self]

\* psse.save_data_case(pth_sav), with or without a path; func = psspy.save
\* raises NameError while the global psspy is not bound
Do_save_data_case ==
    /\ pc = "idle"
    /\ \E pth_sav \in Paths \cup {None}, ierr \in Status :
          LET r == IF psspy
                   THEN save_data_case(Self, pth_sav, ierr)
                   ELSE [calls |-> <<>>, exc |-> "NameError", self |-> Self]
          IN  /\ SetSelf(r.self)
              /\ last' = Record("save_data_case", pth_sav, r, NoValue, Self)
    /\ UNCHANGED <<psspy, qryVars, pc, auxVars>>

\* convert_sav_case without the guard on self.converted
convert_sav_case_begin_no_guard(op) ==
    /\ pc = "idle"
    /\ IF ~psspy
       THEN /\ last' = [op |-> op, arg |-> None, calls |-> <<>>, exc |-> "NameError",
                        ret |-> NoValue, pre |-> Self]
            /\ pc' = "idle"
       ELSE /\ last' = [op |-> op, arg |-> None, calls |-> <<>>, exc |-> NoExc,
                        ret |-> NoValue, pre |-> Self]
            /\ pc' = "convert_gen"
    /\ UNCHANGED <<ctlVars, qryVars, auxVars>>

\* convert_sav_case with convert_gen left out
convert_sav_case_begin_no_gen(op) ==
    /\ pc = "idle"
    /\ IF ~psspy
       THEN /\ last' = [op |-> op, arg |-> None, calls |-> <<>>, exc |-> "NameError",
                        ret |-> NoValue, pre |-> Self]
            /\ pc' = "idle"
       ELSE /\ last' = [op |-> op, arg |-> None, calls |-> <<>>, exc |-> NoExc,
                        ret |-> NoValue, pre |-> Self]
            /\ pc' = IF ~converted THEN "convert_load" ELSE "ordr"
    /\ UNCHANGED <<ctlVars, qryVars, auxVars>>

\* psse.convert_sav_case() is called: the guard on self.converted
convert_sav_case_begin(op) ==
    /\ pc = "idle"
    /\ IF ~psspy
       THEN /\ last' = [op |-> op, arg |-> None, calls |-> <<>>, exc |-> "NameError",
                        ret |-> NoValue, pre |-> Self]
            /\ pc' = "idle"
       ELSE /\ last' = [op |-> op, arg |-> None, calls |-> <<>>, exc |-> NoExc,
                        ret |-> NoValue, pre |-> Self]
            /\ pc' = IF ~converted THEN "convert_gen" ELSE "ordr"
    /\ UNCHANGED <<ctlVars, qryVars, auxVars>>

\* convert_sav_case: self.convert_gen()
convert_sav_case_gen ==
    /\ pc = "convert_gen"
    /\ \E e \in GenAnswers :
          LET g == convert_gen(Self, e) IN
          /\ SetSelf(g.self)
          /\ last' = [last EXCEPT !.calls = @ \o g.calls, !.exc = g.exc]
          /\ pc' = IF g.exc # NoExc THEN "idle" ELSE "convert_load"
    /\ UNCHANGED <<psspy, qryVars, auxVars>>

\* convert_sav_case going on to ordr when convert_load raised
convert_sav_case_load_swallow ==
    /\ pc = "convert_load"
    /\ \E l \in ConvertLoadRuns :
          /\ last' = [last EXCEPT !.calls = @ \o l.calls]
          /\ converted' = IF l.exc # NoExc THEN converted ELSE TRUE
          /\ pc' = "ordr"
    /\ UNCHANGED <<psspy, sav, sav_name, bkdy_issue, qryVars, auxVars>>

\* convert_sav_case: self.convert_load(); self.converted = True
convert_sav_case_load ==
    /\ pc = "convert_load"
    /\ \E l \in ConvertLoadRuns :
          /\ last' = [last EXCEPT !.calls = @ \o l.calls, !.exc = l.exc]
          /\ converted' = IF l.exc # NoExc THEN converted ELSE TRUE
          /\ pc' = IF l.exc # NoExc THEN "idle" ELSE "ordr"
    /\ UNCHANGED <<psspy, sav, sav_name, bkdy_issue, qryVars, auxVars>>

\* convert_sav_case raising on a status above zero of ordr
convert_sav_case_ordr_fatal ==
    /\ pc = "ordr"
    /\ \E ordr \in Status, fact \in Status :
          IF ordr > 0
          THEN /\ last' = [last EXCEPT !.calls = Append(@, Call("ordr", 0, ordr, 0)),
                                       !.exc = "ValueError"]
               /\ pc' = "idle"
          ELSE /\ last' = [last EXCEPT !.calls = @ \o <<Call("ordr", 0, ordr, 0),
                                                       Call("fact", 0, fact, 0)>>]
               /\ pc' = IF last.op = "main" THEN "bkdy" ELSE "idle"
    /\ UNCHANGED <<ctlVars, qryVars, auxVars>>

\* convert_sav_case: ordr and fact, whose statuses are only logged; then
\* convert_sav_case returns, to main when main called it
convert_sav_case_ordr_fact ==
    /\ pc = "ordr"
    /\ \E ordr \in Status, fact \in Status :
          last' = [last EXCEPT !.calls = @ \o <<Call("ordr", 0, ordr, 0), Call("fact", 0, fact, 0)>>]
    /\ pc' = IF last.op = "main" THEN "bkdy" ELSE "idle"
    /\ UNCHANGED <<ctlVars, qryVars, auxVars>>

\* bkdy.main(): the bkdy call after convert_sav_case returned, with
\* bfile=self.breaker_duty_file (kept in last.arg); a status above zero is
\* logged as critical and main returns
main_bkdy ==
    /\ pc = "bkdy"
    /\ \E ierr \in Status :
          last' = [last EXCEPT !.calls = Append(@, Call("bkdy", 1, ierr, 0)),
                               !.arg = study.breaker_duty_file]
    /\ pc' = "idle"
    /\ UNCHANGED <<ctlVars, qryVars, auxVars>>

Do_convert_sav_case == convert_sav_case_begin("convert_sav_case")

\* bkdy.main() of a BkdyFaultStudy built on the PsseControl is called
Do_main == convert_sav_case_begin("main")

Next ==
    \/ Do_load_data_case
    \/ Do_save_data_case
    \/ Do_convert_sav_case
    \/ convert_sav_case_gen
    \/ convert_sav_case_load
    \/ convert_sav_case_ordr_fact
    \/ Do_main
    \/ main_bkdy

Spec == Init /\ [][Next]_vars

\* BusData(): __init__ runs update on the new object; obj keeps the fields
\* the constructor left in it
Do_BusData ==
    \E e \in BusAnswers :
       LET r == BusData_update(BusData_init, e) IN
       /\ obj' = r.self
       /\ last' = Record("BusData", None, r, NoValue, BusData_init)
       /\ UNCHANGED <<ctlVars, pc, auxVars>>

\* mac_data = MachineData()
Do_MachineData ==
    /\ obj' = MachineData_init
    /\ last' = [op |-> "MachineData", arg |-> None, calls |-> <<>>, exc |-> NoExc,
                ret |-> NoValue, pre |-> obj]
    /\ UNCHANGED <<ctlVars, pc, auxVars>>

\* mac_data.update(), as produce_idev runs it
Do_MachineData_update ==
    /\ obj.cls = "MachineData"
    /\ \E e \in MachineAnswers :
          LET r == MachineData_update(obj, e) IN
          /\ obj' = r.self
          /\ last' = Record("MachineData.update", None, r, NoValue, obj)
    /\ UNCHANGED <<ctlVars, pc, auxVars>>

\* induction_machines = InductionData()
Do_InductionData ==
    /\ obj' = InductionData_init
    /\ last' = [op |-> "InductionData", arg |-> None, calls |-> <<>>, exc |-> NoExc,
                ret |-> NoValue, pre |-> obj]
    /\ UNCHANGED <<ctlVars, pc, auxVars>>

\* induction_machines.get_count(reset)
Do_get_count ==
    /\ obj.cls = "InductionData"
    /\ \E reset \in BOOLEAN, e \in IndAnswers :
          LET r == get_count(obj, reset, e) IN
          /\ obj' = r.self
          /\ last' = Record("get_count", reset, r, r.ret, obj)
    /\ UNCHANGED <<ctlVars, pc, auxVars>>

NextQuery ==
    \/ Do_BusData
    \/ Do_MachineData
    \/ Do_MachineData_update
    \/ Do_InductionData
    \/ Do_get_count

SpecQuery == Init /\ [][NextQuery]_vars

\* ------------------------------------------------------- file_handling
\* if i > 100: the number of renamed candidates tried before giving up
MaxAttempts == 100

\* '{}({})'.format(orig_sheet_name, i)
format_sheet_name(orig_sheet_name, i) ==
    orig_sheet_name \o "(" \o ToString(i) \o ")"

\* '{}_transposed'.format(sheet_name)
format_transposed(sheet_name) == sheet_name \o "_transposed"

\* sheet_name in wkbk.book.sheetnames.keys()
sheet_exists(w, sheet_name) == sheet_name \in w.sheets

\* The candidate of iteration i of the while loop (i = 0: before the loop)
candidate(orig_sheet_name, i) ==
    IF i = 0 THEN orig_sheet_name ELSE format_sheet_name(orig_sheet_name, i)

\* The while loop with the test i > 100 - 1
worksheet_name_loop_early_cap(w, orig_sheet_name) ==
    LET exits == {i \in 0..MaxAttempts :
                     ~sheet_exists(w, candidate(orig_sheet_name, i)) \/ i > MaxAttempts - 1}
        i == CHOOSE i \in exits : \A j \in exits : i <= j
    IN  IF i > MaxAttempts - 1
        THEN [exc |-> "StopIteration", ret |-> NoValue, i |-> i]
        ELSE [exc |-> NoExc, ret |-> candidate(orig_sheet_name, i), i |-> i]

\* The while loop of worksheet_name_checker: i counts the iterations; the loop
\* is left at the first i whose candidate is not a sheet of the workbook
\* (returned), or by StopIteration in the iteration that makes i > 100, when
\* the candidates of all iterations before were sheets of the workbook.
worksheet_name_loop(w, orig_sheet_name) ==
    LET exits == {i \in 0..(MaxAttempts + 1) :
                     ~sheet_exists(w, candidate(orig_sheet_name, i)) \/ i > MaxAttempts}
        i == CHOOSE i \in exits : \A j \in exits : i <= j
    IN  IF i > MaxAttempts
        THEN [exc |-> "StopIteration", ret |-> NoValue, i |-> i]
        ELSE [exc |-> NoExc, ret |-> candidate(orig_sheet_name, i), i |-> i]

\* worksheet_name_checker numbering a renamed sheet one too high
worksheet_name_checker_from_one(w, sheet_name) ==
    LET r == worksheet_name_loop(w, sheet_name)
    IN  [exc |-> r.exc, wkbk |-> w,
         ret |-> IF r.exc = NoExc /\ r.i > 0 THEN format_sheet_name(sheet_name, r.i + 1)
                 ELSE r.ret,
         calls |-> [k \in 1..(r.i + 1) |-> candidate(sheet_name, k - 1)]]

\* calls: the names looked up in the workbook, in order; wkbk: the workbook as
\* the checker leaves it.
worksheet_name_checker(w, sheet_name) ==
    LET r == worksheet_name_loop(w, sheet_name)
    IN  [exc |-> r.exc, ret |-> r.ret, wkbk |-> w,
         calls |-> [k \in 1..(r.i + 1) |-> candidate(sheet_name, k - 1)]]

\* wkbk.book.add_worksheet(name=...)
add_worksheet(w, name) == [w EXCEPT !.sheets = @ \cup {name}]

\* What a sheet holds from a row on: a string (the table fields are empty) or a
\* table (the string is empty); writing replaces what the sheet held there.
write_row(w, name, row, string, df) ==
    [w EXCEPT !.cells = {c \in @ : ~(c.sheet = name /\ c.row = row)}
                        \cup {[sheet |-> name, row |-> row, string |-> string,
                               index |-> df.index, columns |-> df.columns]}]

NoTable == [index |-> "", columns |-> ""]
\* wksh.write_string(row=row, col=col, string=message)
write_string(w, name, row, message) == write_row(w, name, row, message, NoTable)

\* df.to_excel(writer, sheet_name=..., startrow=...): the sheet is created when
\* the writer does not have it; the table starts at startrow.
to_excel(w, df, name, startrow) ==
    write_row(add_worksheet(w, name), name, startrow, "", df)

\* A results table: what labels its rows and what labels its columns.
DataFrame == [index |-> "busbars", columns |-> "currents"]
\* df.T
T(df) == [index |-> df.columns, columns |-> df.index]

\* constants.Excel.row_spacing: rows between the message and the table
row_spacing == 1

Messages == {"Study successful", "Study failed"}
SheetNames == {"TEST", "TEST(1)"}

write_fault_data_to_excel(df, message, sheet_name) ==
    LET w0 == Workbook_init
        c1 == worksheet_name_checker(w0, sheet_name)
        w1 == add_worksheet(w0, c1.ret)
        c2 == worksheet_name_checker(w1, format_transposed(c1.ret))
        w2 == add_worksheet(w1, c2.ret)
        row == 0
        w3 == write_string(write_string(w2, c1.ret, row, message), c2.ret, row, message)
        w4 == to_excel(w3, df, c1.ret, row + row_spacing)
        w5 == to_excel(w4, T(df), c2.ret, row + row_spacing)
    IN  IF c1.exc # NoExc THEN [exc |-> c1.exc, calls |-> <<>>, wkbk |-> w0]
        ELSE IF c2.exc # NoExc THEN [exc |-> c2.exc, calls |-> <<>>, wkbk |-> w1]
        ELSE [exc |-> NoExc, calls |-> <<>>, wkbk |-> w5]

\* The sheets a workbook can hold when the checker is called: the name (k = 0)
\* and its numbered copies up to n, all but one of them (gap; -1: none left out).
NumberedName(orig, k) == IF k = 0 THEN orig ELSE format_sheet_name(orig, k)
WorkbookWith(orig, n, gap) ==
    [sheets |-> {NumberedName(orig, k) : k \in (0..n) \ {gap}}, cells |-> {}]
Workbooks == {WorkbookWith("TEST", n, gap) : n \in (-1)..MaxSheets, gap \in {-1, 0, 1, 2, MaxAttempts - 1, MaxAttempts}}

ControlInit ==
    /\ psspy = FALSE
    /\ sav = PsseControl_init.sav
    /\ sav_name = PsseControl_init.sav_name
    /\ converted = PsseControl_init.converted
    /\ bkdy_issue = PsseControl_init.bkdy_issue
    /\ obj = NoObject
    /\ pc = "idle"
    /\ last = [op |-> "init", arg |-> None, calls |-> <<>>, exc |-> NoExc,
               ret |-> NoValue, pre |-> PsseControl_init]

InitExcel ==
    /\ ControlInit
    /\ study = Study_init
    /\ idev = NoFile
    /\ wkbk \in Workbooks
    /\ column = <<>>
    /\ gui = MainGUI_init

Do_worksheet_name_checker ==
    /\ \E sheet_name \in SheetNames :
          LET r == worksheet_name_checker(wkbk, sheet_name) IN
          /\ wkbk' = r.wkbk
          /\ last' = Record("worksheet_name_checker", sheet_name, r, r.ret, wkbk)
    /\ UNCHANGED <<ctlVars, qryVars, pc, study, idev, column, gui>>

Do_write_fault_data_to_excel ==
    /\ \E message \in Messages, sheet_name \in SheetNames :
          LET r == write_fault_data_to_excel(DataFrame, message, sheet_name) IN
          /\ wkbk' = r.wkbk
          /\ last' = Record("write_fault_data_to_excel", <<message, sheet_name>>, r,
                            NoValue, wkbk)
    /\ UNCHANGED <<ctlVars, qryVars, pc, study, idev, column, gui>>

NextExcel ==
    \/ Do_worksheet_name_checker
    \/ Do_write_fault_data_to_excel

SpecExcel == InitExcel /\ [][NextExcel]_vars

\* ----------------------------------------------------------------- gui
\* The characters the user types: a digit, a minus sign, the separator and a
\* letter; a text is a sequence of them.
Chars == {"1", "-", ",", "x"}
Texts == UNION {[1..n -> Chars] : n \in 0..MaxText}

\* str.split(','): the pieces between the commas (one piece more than commas)
RECURSIVE split(_, _)
split(text, piece) ==
    IF text = <<>> THEN <<piece>>
    ELSE IF Head(text) = "," THEN <<piece>> \o split(Tail(text), <<>>)
    ELSE split(Tail(text), Append(piece, Head(text)))

IsDigits(val) == val # <<>> /\ \A k \in 1..Len(val) : val[k] = "1"
RECURSIVE DigitsValue(_)
DigitsValue(val) ==
    IF val = <<>> THEN 0 ELSE 10 * DigitsValue(SubSeq(val, 1, Len(val) - 1)) + 1

\* float(val): the number, or ValueError for a text that is not a number
float(val) ==
    IF IsDigits(val) THEN [exc |-> NoExc, ret |-> DigitsValue(val)]
    ELSE IF val # <<>> /\ Head(val) = "-" /\ IsDigits(Tail(val))
         THEN [exc |-> NoExc, ret |-> 0 - DigitsValue(Tail(val))]
    ELSE [exc |-> "ValueError", ret |-> NoValue]

\* for val in fault_times: try: append(float(val)) except ValueError: warning
RECURSIVE convert_fault_times(_, _)
convert_fault_times(vals, acc) ==
    IF vals = <<>> THEN acc
    ELSE LET new_val == float(Head(vals)) IN
         convert_fault_times(Tail(vals),
                             IF new_val.exc = NoExc THEN Append(acc, new_val.ret) ELSE acc)

MainGUI_process(self) ==
    LET fault_times == split(self.var_fault_times_list, <<>>)
    IN  [self EXCEPT !.fault_times = convert_fault_times(fault_times, <<>>),
                     !.mainloop = FALSE]

\* The user edits the text of the entry box.
Do_entry_fault_times ==
    /\ gui.mainloop
    /\ \E text \in Texts :
          /\ gui' = [gui EXCEPT !.var_fault_times_list = text]
          /\ last' = [op |-> "entry_fault_times", arg |-> text, calls |-> <<>>,
                      exc |-> NoExc, ret |-> NoValue, pre |-> NoValue]
    /\ UNCHANGED <<ctlVars, qryVars, pc, study, idev, wkbk, column>>

\* The user presses the button that runs MainGUI.process, which ends with
\* master.destroy().
Do_process ==
    /\ gui.mainloop
    /\ gui' = MainGUI_process(gui)
    /\ last' = [op |-> "process", arg |-> gui.var_fault_times_list, calls |-> <<>>,
                exc |-> NoExc, ret |-> NoValue, pre |-> NoValue]
    /\ UNCHANGED <<ctlVars, qryVars, pc, study, idev, wkbk, column>>

\* The variable each tick box is bound to: tk.Checkbutton(..., variable=...) in
\* add_reload_sav and in add_open_excel
reload_sav_variable == "bo_reload_sav"
open_excel_variable == "bo_reload_sav"
\* A click on a tick box inverts the BooleanVar it is bound to.
toggle(self, variable) == [self EXCEPT ![variable] = ~@]
\* The two BooleanVars of the tick boxes
TickBoxes(self) == [bo_reload_sav |-> self.bo_reload_sav, bo_open_excel |-> self.bo_open_excel]

\* The user clicks the tick box 'Reload initial SAV case on completion'.
Do_tick_reload_sav ==
    /\ gui.mainloop
    /\ gui' = toggle(gui, reload_sav_variable)
    /\ last' = [op |-> "tick_reload_sav", arg |-> None, calls |-> <<>>,
                exc |-> NoExc, ret |-> NoValue, pre |-> TickBoxes(gui)]
    /\ UNCHANGED <<ctlVars, qryVars, pc, study, idev, wkbk, column>>

\* The user clicks the tick box 'Open exported Excel file'.
Do_tick_open_excel ==
    /\ gui.mainloop
    /\ gui' = toggle(gui, open_excel_variable)
    /\ last' = [op |-> "tick_open_excel", arg |-> None, calls |-> <<>>,
                exc |-> NoExc, ret |-> NoValue, pre |-> TickBoxes(gui)]
    /\ UNCHANGED <<ctlVars, qryVars, pc, study, idev, wkbk, column>>

NextGui ==
    \/ Do_entry_fault_times
    \/ Do_process
    \/ Do_tick_reload_sav
    \/ Do_tick_open_excel

SpecGui == Init /\ [][NextGui]_vars

\* ---------------------------------------------------- import_busbars_list
\* What pd.read_excel gives for a cell: an integer for a cell holding a number,
\* a str for a cell holding text (the text may read as a number) and the float
\* nan for a blank cell; v is the characters of the cell.
IntCells == {[type |-> "int", v |-> d] : d \in {<<"1">>, <<"1", "1">>}}
StrCells == {[type |-> "str", v |-> t] : t \in {<<"1">>, <<"x">>}}
nan == [type |-> "float", v |-> <<>>]
Cells == IntCells \cup StrCells \cup {nan}
\* df_busbars.iloc[:, col_num] of a sheet whose first column has entries
Columns == UNION {[1..n -> Cells] : n \in 1..MaxRows}

\* pd.to_numeric(..., errors='coerce') of one entry: its number, nan for a text
\* that is not a number
to_numeric_strict(cell) ==
    IF cell.type = "int" THEN [null |-> FALSE, value |-> float(cell.v).ret]
    ELSE [null |-> TRUE, value |-> 0]

to_numeric(cell) ==
    IF cell.type = "int" THEN [null |-> FALSE, value |-> float(cell.v).ret]
    ELSE IF cell.type = "str" /\ float(cell.v).exc = NoExc
         THEN [null |-> FALSE, value |-> float(cell.v).ret]
    ELSE [null |-> TRUE, value |-> 0]

\* series[mask]: the entries of the series where the mask is True, in order
RECURSIVE boolean_index(_, _)
boolean_index(series, mask) ==
    IF series = <<>> THEN <<>>
    ELSE (IF Head(mask) THEN <<Head(series)>> ELSE <<>>)
         \o boolean_index(Tail(series), Tail(mask))

\* ret: the list returned; errors: the entries listed in the error message
import_busbars_list(busbars_series) ==
    LET busbars == [k \in DOMAIN busbars_series |-> to_numeric(busbars_series[k])]
        list_of_errors == [k \in DOMAIN busbars |-> busbars[k].null]
        error_busbars == IF \E k \in DOMAIN list_of_errors : list_of_errors[k]
                         THEN boolean_index(busbars_series, list_of_errors)
                         ELSE <<>>
    IN  [exc |-> NoExc, calls |-> <<>>, errors |-> error_busbars,
         ret |-> boolean_index(busbars_series,
                               [k \in DOMAIN list_of_errors |-> ~list_of_errors[k]])]

InitImport ==
    /\ ControlInit
    /\ study = Study_init
    /\ idev = NoFile
    /\ wkbk = Workbook_init
    /\ column \in Columns
    /\ gui = MainGUI_init

\* last.pre holds the entries reported as errors
Do_import_busbars_list ==
    /\ LET r == import_busbars_list(column) IN
          last' = Record("import_busbars_list", column, r, r.ret, r.errors)
    /\ UNCHANGED <<ctlVars, qryVars, pc, auxVars>>

NextImport == Do_import_busbars_list

SpecImport == InitImport /\ [][NextImport]_vars

\* ---------------------------------------------------------- idev file
\* constants.Machines: the labels of the columns
bus == "NUMBER"
identifier == "ID"
x_subtr == "XSUBTR"
x_trans == "XTRANS"
x_synch == "XSYNCH"
t1d0 == "T'd0"
t11d0 == "T''d0"
t1q0 == "T'q0"
t11q0 == "T''q0"
xd == "Xd"
xq == "Xq"
x1d == "X'd"
x1q == "X'q"
x11 == "X''"
bkdy_col_order == <<bus, identifier, t1d0, t11d0, t1q0, t11q0, xd, xq, x1d, x1q, x11>>
\* constants.SHEPD: the default time constants, as the decimal text they print as
SHEPD_t1d0 == "0.12"
SHEPD_t11d0 == "0.04"
SHEPD_t1q0 == SHEPD_t1d0
SHEPD_t11q0 == SHEPD_t11d0

\* initial_columns, and the frame update builds: data = iarray + rarray + carray,
\* transposed, with initial_columns as the labels
initial_columns == <<bus, x_subtr, x_trans, x_synch, identifier>>
Labelled(data) ==
    LET all == data[1] \o data[2] \o data[3] IN
    [c \in {initial_columns[j] : j \in 1..Len(initial_columns)} |->
        all[CHOOSE j \in 1..Len(initial_columns) : initial_columns[j] = c]]
\* the number of rows of a frame
NumRows(df) == Len(df[bus])
\* df[label] = value: every row gets the value
Constant(df, value) == [k \in 1..NumRows(df) |-> value]

\* What the csv writer prints for a value of a column: the identifiers and the
\* time constants are text already, the numbers are printed.
TextColumns == {identifier, t1d0, t11d0, t1q0, t11q0}
csv_field(c, value) == IF c \in TextColumns THEN value ELSE ToString(value)

\* df.to_csv(target) with the column labels as the first line
to_csv_with_header(df, order) ==
    [exists |-> TRUE, tail |-> <<>>,
     lines |-> <<order>> \o
               [k \in 1..NumRows(df) |-> [j \in 1..Len(order) |-> csv_field(order[j], df[order[j]][k])]]]

\* df.to_csv(target, header=False, index=False): the file is replaced by one
\* line per row
to_csv(df, order) ==
    [exists |-> TRUE, tail |-> <<>>,
     lines |-> [k \in 1..NumRows(df) |->
                  [j \in 1..Len(order) |-> csv_field(order[j], df[order[j]][k])]]]

RECURSIVE join(_)
join(chars) == IF chars = <<>> THEN "" ELSE Head(chars) \o join(Tail(chars))

\* open(target, 'a').write('0\n')
write_zero_line(file) ==
    [exists |-> TRUE, tail |-> <<>>,
     lines |-> Append(file.lines, <<join(Append(file.tail, "0"))>>)]

\* open(target, 'a').write('0')
write_zero(file) == [file EXCEPT !.exists = TRUE, !.tail = Append(@, "0")]

\* The machines the engine returns: a bus number, the reactances
\* (subtransient, transient, synchronous) and an identifier each.
MachineRows == {[bus |-> b, x |-> <<b, b + 1, b + 2>>, id |-> "1"] : b \in Data}
MachineLists == UNION {[1..n -> MachineRows] : n \in 0..MaxMachines}
\* The answers of amachint, amachreal and amachchar for a list of machines
IdevAnswer(ms, ierr) ==
    [int |-> [ierr |-> ierr[1], array |-> <<[k \in DOMAIN ms |-> ms[k].bus]>>],
     real |-> [ierr |-> ierr[2], array |-> <<[k \in DOMAIN ms |-> ms[k].x[1]],
                                            [k \in DOMAIN ms |-> ms[k].x[2]],
                                            [k \in DOMAIN ms |-> ms[k].x[3]]>>],
     char |-> [ierr |-> ierr[3], array |-> <<[k \in DOMAIN ms |-> ms[k].id]>>]]
\* (an answer with a non-zero status carries no machines)
IdevAnswers ==
    {IdevAnswer(ms, [j \in 1..3 |-> 0]) : ms \in MachineLists}
    \cup {IdevAnswer(<<>>, ierr) : ierr \in [1..3 -> Status]}

\* produce_idev taking the q-axis reactances one column further down than the
\* d-axis ones
produce_idev_q_axis_shifted(self, file, e) ==
    LET u == MachineData_update(self, e)
        df0 == Labelled(u.self.df)
        df1 == [c \in DOMAIN df0 \cup {x11, x1d, xd, t1d0, t11d0, t1q0, t11q0, x1q, xq} |->
                  CASE c = x11 -> df0[x_subtr]
                    [] c = x1d -> df0[x_trans]
                    [] c = xd -> df0[x_synch]
                    [] c = t1d0 -> Constant(df0, SHEPD_t1d0)
                    [] c = t11d0 -> Constant(df0, SHEPD_t11d0)
                    [] c = t1q0 -> Constant(df0, SHEPD_t1q0)
                    [] c = t11q0 -> Constant(df0, SHEPD_t11q0)
                    [] c = x1q -> df0[x_subtr]
                    [] c = xq -> df0[x_trans]
                    [] OTHER -> df0[c]]
    IN  IF u.exc # NoExc
        THEN [calls |-> u.calls, exc |-> u.exc, self |-> u.self, file |-> file]
        ELSE [calls |-> u.calls, exc |-> NoExc, self |-> [u.self EXCEPT !.df = df1],
              file |-> write_zero_line(to_csv(df1, bkdy_col_order))]

\* MachineData.produce_idev(target): e is the engine's answer to update
produce_idev(self, file, e) ==
    LET u == MachineData_update(self, e)
        df0 == Labelled(u.self.df)
        df1 == [c \in DOMAIN df0 \cup {x11, x1d, xd, t1d0, t11d0, t1q0, t11q0, x1q, xq} |->
                  CASE c = x11 -> df0[x_subtr]
                    [] c = x1d -> df0[x_trans]
                    [] c = xd -> df0[x_synch]
                    [] c = t1d0 -> Constant(df0, SHEPD_t1d0)
                    [] c = t11d0 -> Constant(df0, SHEPD_t11d0)
                    [] c = t1q0 -> Constant(df0, SHEPD_t1q0)
                    [] c = t11q0 -> Constant(df0, SHEPD_t11q0)
                    [] c = x1q -> df0[x_trans]
                    [] c = xq -> df0[x_synch]
                    [] OTHER -> df0[c]]
    IN  IF u.exc # NoExc
        THEN [calls |-> u.calls, exc |-> u.exc, self |-> u.self, file |-> file]
        ELSE [calls |-> u.calls, exc |-> NoExc, self |-> [u.self EXCEPT !.df = df1],
              file |-> write_zero_line(to_csv(df1, bkdy_col_order))]

\* add_to_idev that writes the zero only when induction machines were counted
add_to_idev_if_counted(self, file, e) ==
    LET g == get_count(self, FALSE, e) IN
    IF g.exc # NoExc
    THEN [calls |-> g.calls, exc |-> g.exc, self |-> g.self, file |-> file]
    ELSE [calls |-> g.calls, exc |-> NoExc, self |-> g.self,
          file |-> IF g.ret > 0 THEN write_zero(file) ELSE file]

\* InductionData.add_to_idev(target): e is aindmaccount's answer; a count above
\* zero is only logged
add_to_idev(self, file, e) ==
    LET g == get_count(self, FALSE, e) IN
    IF g.exc # NoExc
    THEN [calls |-> g.calls, exc |-> g.exc, self |-> g.self, file |-> file]
    ELSE [calls |-> g.calls, exc |-> NoExc, self |-> g.self, file |-> write_zero(file)]

\* constants.G74.machine_id: the identifier of the equivalent machines
machine_id == "LD"

\* The path bkdy_study gives the idev file
temp_bkd_file == "bkdy_machines.bkd"

\* BkdyFaultStudy.create_breaker_duty_file(target_path): self is the study object
create_breaker_duty_file(self, target_path, file, em, ei) ==
    LET self1 == [self EXCEPT !.breaker_duty_file = target_path]
        p == produce_idev(MachineData_init, file, em)
        a == add_to_idev(InductionData_init, p.file, ei)
    IN  IF p.exc # NoExc
        THEN [calls |-> p.calls, exc |-> p.exc, self |-> self1, file |-> p.file]
        ELSE [calls |-> p.calls \o a.calls, exc |-> a.exc, self |-> self1, file |-> a.file]

\* mac_data = MachineData(); mac_data.produce_idev(target=idev_file)
Do_produce_idev ==
    /\ \E e \in IdevAnswers :
          LET r == produce_idev(MachineData_init, idev, e) IN
          /\ idev' = r.file
          /\ last' = Record("produce_idev", e, r, NoValue, NoFile)
    /\ UNCHANGED <<ctlVars, qryVars, pc, study, wkbk, column, gui>>

\* induction_machines = InductionData(); induction_machines.add_to_idev(target);
\* not run again on a file whose tail already holds MaxInd + 1 zeros
Do_add_to_idev ==
    /\ Len(idev.tail) <= MaxInd
    /\ \E e \in IndAnswers :
          LET r == add_to_idev(InductionData_init, idev, e) IN
          /\ idev' = r.file
          /\ last' = Record("add_to_idev", temp_bkd_file, r, NoValue, idev)
    /\ UNCHANGED <<ctlVars, qryVars, pc, study, wkbk, column, gui>>

\* bkdy.create_breaker_duty_file(target_path=idev_file)
Do_create_breaker_duty_file ==
    /\ \E em \in IdevAnswers, ei \in IndAnswers :
          LET r == create_breaker_duty_file(study, temp_bkd_file, idev, em, ei) IN
          /\ study' = r.self
          /\ idev' = r.file
          /\ last' = Record("create_breaker_duty_file", em, r, NoValue, NoFile)
    /\ UNCHANGED <<ctlVars, qryVars, pc, wkbk, column, gui>>

NextIdev ==
    \/ Do_produce_idev
    \/ Do_add_to_idev
    \/ Do_create_breaker_duty_file

SpecIdev == Init /\ [][NextIdev]_vars

\* bkdy = BkdyFaultStudy(psse_control=psse) on a PsseControl that has loaded a
\* case: breaker_duty_file = str(), and no idev file exists
InitBkdy ==
    /\ psspy = TRUE
    /\ sav \in Paths
    /\ sav_name = basename(sav)
    /\ converted = FALSE
    /\ bkdy_issue = FALSE
    /\ obj = NoObject
    /\ pc = "idle"
    /\ study = Study_init
    /\ idev = NoFile
    /\ wkbk = Workbook_init
    /\ column = <<>>
    /\ gui = MainGUI_init
    /\ last = [op |-> "init", arg |-> None, calls |-> <<>>, exc |-> NoExc,
               ret |-> NoValue, pre |-> PsseControl_init]

\* The operations of a BkdyFaultStudy, in any order: the idev file is built,
\* main is run
NextBkdy ==
    \/ (pc = "idle" /\ Do_create_breaker_duty_file)
    \/ Do_main
    \/ convert_sav_case_gen
    \/ convert_sav_case_load
    \/ convert_sav_case_ordr_fact
    \/ main_bkdy

SpecBkdy == InitBkdy /\ [][NextBkdy]_vars

\* ----------------------------------------------------------- bkdy_study
\* Fault times in hundredths of a second (0.01 and constants.fault_time), and
\* the requests a study is run for
Times == {1, 6}
Requests == UNION {[1..n -> Times] : n \in 0..MaxTimes}
\* pth_sav_case_export: the temporary case the study saves
export_sav_case == [dir |-> 0, name |-> 1]

\* An entry of the trace of a study: a step it made, or a call of the solver
\* with the fault time and the idev file it was given and the status returned.
Step(name) == [f |-> name, flttim |-> 0, bfile |-> "", ierr |-> 0]
Solve(flttim, bfile, ierr) == [f |-> "bkdy", flttim |-> flttim, bfile |-> bfile, ierr |-> ierr]
Traced(e) == [study EXCEPT !.trace = Append(@, e)]
Failed(st) == [st EXCEPT !.pc = "failed"]

\* bkdy_study is called: psse = PsseControl(); psse.load_data_case(sav_case)
study_load ==
    /\ study.pc = "none" /\ pc = "idle"
    /\ \E sav_case \in Paths, fault_times \in Requests, reload_sav \in BOOLEAN,
          e \in CaseAnswers :
          LET r == load_data_case(PsseControl_init, psspy, sav_case, e)
              st == [Traced(Step("load_data_case")) EXCEPT
                        !.fault_times = fault_times, !.reload_sav = reload_sav,
                        !.sav_case = sav_case, !.pc = "create_breaker_duty_file"]
          IN  /\ SetSelf(r.self)
              /\ psspy' = r.psspy
              /\ last' = Record("load_data_case", sav_case, r, NoValue, PsseControl_init)
              /\ study' = IF r.exc # NoExc THEN Failed(st) ELSE st
    /\ UNCHANGED <<qryVars, pc, idev, wkbk, column, gui>>

\* bkdy = BkdyFaultStudy(psse); bkdy.create_breaker_duty_file(temp_bkd_file)
study_create_breaker_duty_file ==
    /\ study.pc = "create_breaker_duty_file"
    /\ \E em \in IdevAnswers, ei \in IndAnswers :
          LET r == create_breaker_duty_file(Traced(Step("create_breaker_duty_file")),
                                            temp_bkd_file, idev, em, ei)
          IN  /\ idev' = r.file
              /\ last' = Record("create_breaker_duty_file", em, r, NoValue, NoFile)
              /\ study' = IF r.exc # NoExc THEN Failed(r.self)
                          ELSE [r.self EXCEPT !.pc = "g74"]
    /\ UNCHANGED <<ctlVars, qryVars, pc, wkbk, column, gui>>

\* g74_data = G74FaultInfeed(); g74_data.identify_machine_parameters();
\* g74_data.calculate_machine_mva_values(): neither aborts the run
study_g74 ==
    /\ study.pc = "g74"
    /\ study' = [study EXCEPT
                    !.trace = @ \o <<Step("identify_machine_parameters"),
                                     Step("calculate_machine_mva_values")>>,
                    !.pc = "save_data_case"]
    /\ UNCHANGED <<ctlVars, qryVars, pc, idev, wkbk, column, gui, last>>

\* psse.save_data_case(pth_sav=export_sav_case), before and after the
\* calculation of the fault currents
study_save_data_case ==
    /\ study.pc \in {"save_data_case", "save_results"}
    /\ \E ierr \in Status :
          LET r == save_data_case(Self, export_sav_case, ierr)
              st == [Traced(Step("save_data_case")) EXCEPT
                        !.pc = IF study.pc = "save_data_case" THEN "add_machines" ELSE "excel"]
          IN  /\ SetSelf(r.self)
              /\ last' = Record("save_data_case", export_sav_case, r, NoValue, Self)
              /\ study' = IF r.exc # NoExc THEN Failed(st) ELSE st
    /\ UNCHANGED <<psspy, qryVars, pc, idev, wkbk, column, gui>>

\* calculate_fault_currents converting the model before the machines are added
study_convert_before_machines ==
    /\ study.pc = "add_machines" /\ pc = "idle"
    /\ study' = [study EXCEPT !.pc = "converting"]
    /\ last' = [op |-> "calculate_fault_currents", arg |-> None, calls |-> <<>>,
                exc |-> NoExc, ret |-> NoValue, pre |-> Self]
    /\ pc' = IF ~converted THEN "convert_gen" ELSE "ordr"
    /\ UNCHANGED <<ctlVars, qryVars, idev, wkbk, column, gui>>

\* bkdy.calculate_fault_currents(fault_times, g74_infeed, buses): the machines
\* of g74_infeed, one per qualifying load and each with the identifier
\* machine_id, are added to the model (add_machines), then the model is
\* converted (psse.convert_sav_case())
study_add_machines ==
    /\ study.pc = "add_machines" /\ pc = "idle"
    /\ \E n \in 0..MaxEmbedded :
          study' = [Traced(Step("add_machines")) EXCEPT !.pc = "converting", !.embedded = n]
    /\ last' = [op |-> "calculate_fault_currents", arg |-> None, calls |-> <<>>,
                exc |-> NoExc, ret |-> NoValue, pre |-> Self]
    /\ pc' = IF ~converted THEN "convert_gen" ELSE "ordr"
    /\ UNCHANGED <<ctlVars, qryVars, idev, wkbk, column, gui>>

\* calculate_fault_currents once convert_sav_case has ended: an exception of
\* the conversion ends the study, otherwise the fault times are gone through
study_converted ==
    /\ study.pc = "converting" /\ pc = "idle"
    /\ study' = IF last.exc # NoExc THEN Failed(study) ELSE [study EXCEPT !.pc = "bkdy"]
    /\ UNCHANGED <<ctlVars, qryVars, pc, idev, wkbk, column, gui, last>>

\* The fault times of the request the solver has been called for
Solved(st) == Len(SelectSeq(st.trace, LAMBDA e : e.f = "bkdy"))

\* calculate_fault_currents calling the solver with constants.fault_time for
\* every fault time of the request
study_bkdy_fixed_time ==
    /\ study.pc = "bkdy"
    /\ IF Solved(study) = Len(study.fault_times)
       THEN /\ study' = [study EXCEPT !.pc = "save_results"]
            /\ UNCHANGED last
       ELSE \E ierr \in Status :
               LET st == Traced(Solve(6, study.breaker_duty_file, ierr)) IN
               /\ study' = IF ierr > 0 THEN Failed(st) ELSE st
               /\ last' = [op |-> "bkdy", arg |-> 6,
                           calls |-> <<Call("bkdy", 1, ierr, 0)>>,
                           exc |-> IF ierr > 0 THEN "ValueError" ELSE NoExc,
                           ret |-> NoValue, pre |-> Self]
    /\ UNCHANGED <<ctlVars, qryVars, pc, idev, wkbk, column, gui>>

\* calculate_fault_currents: for the next fault time of the request the solver
\* is called with that fault time and the idev file; a status above zero ends
\* the study; after the last fault time the results are returned
study_bkdy ==
    /\ study.pc = "bkdy"
    /\ IF Solved(study) = Len(study.fault_times)
       THEN /\ study' = [study EXCEPT !.pc = "save_results"]
            /\ UNCHANGED last
       ELSE \E ierr \in Status :
               LET flttim == study.fault_times[Solved(study) + 1]
                   st == Traced(Solve(flttim, study.breaker_duty_file, ierr))
               IN  /\ study' = IF ierr > 0 THEN Failed(st) ELSE st
                   /\ last' = [op |-> "bkdy", arg |-> flttim,
                               calls |-> <<Call("bkdy", 1, ierr, 0)>>,
                               exc |-> IF ierr > 0 THEN "ValueError" ELSE NoExc,
                               ret |-> NoValue, pre |-> Self]
    /\ UNCHANGED <<ctlVars, qryVars, pc, idev, wkbk, column, gui>>

\* with pd.ExcelWriter(path=excel_file) as writer: df.to_excel(writer,
\* sheet_name='Fault I'); df.T.to_excel(writer, sheet_name='Fault I Transposed')
study_excel ==
    /\ study.pc = "excel"
    /\ wkbk' = to_excel(to_excel(Workbook_init, DataFrame, "Fault I", 0),
                        T(DataFrame), "Fault I Transposed", 0)
    /\ study' = [Traced(Step("to_excel")) EXCEPT !.pc = "reload"]
    /\ UNCHANGED <<ctlVars, qryVars, pc, idev, column, gui, last>>

\* if reload_sav: psse.load_data_case(pth_sav=pth_sav_case); then
\* psse.change_output(destination=1) and bkdy_study returns
study_reload ==
    /\ study.pc = "reload"
    /\ IF study.reload_sav
       THEN \E e \in CaseAnswers :
               LET r == load_data_case(Self, psspy, study.sav_case, e)
                   st == [Traced(Step("load_data_case")) EXCEPT !.pc = "done"]
               IN  /\ SetSelf(r.self)
                   /\ psspy' = r.psspy
                   /\ last' = Record("load_data_case", study.sav_case, r, NoValue, Self)
                   /\ study' = IF r.exc # NoExc THEN Failed(st) ELSE st
       ELSE /\ study' = [study EXCEPT !.pc = "done"]
            /\ UNCHANGED <<ctlVars, last>>
    /\ UNCHANGED <<qryVars, pc, idev, wkbk, column, gui>>

NextStudy ==
    \/ study_load
    \/ study_create_breaker_duty_file
    \/ study_g74
    \/ study_save_data_case
    \/ study_add_machines
    \/ convert_sav_case_gen
    \/ convert_sav_case_load
    \/ convert_sav_case_ordr_fact
    \/ study_converted
    \/ study_bkdy
    \/ study_excel
    \/ study_reload

SpecStudy == Init /\ [][NextStudy]_vars

\* ---------------------------------------------------------------- G74
\* Floating point numbers are kept as integers in units of 1/Scale.
Scale == 10000
\* 1.0
One == Scale
\* a ** 2 and a / b
sq(a) == (a * a) \div Scale
quot(a, b) == (a * Scale) \div b
\* The largest n of lo..hi-1 with n * n <= v
RECURSIVE bisect(_, _, _)
bisect(lo, hi, v) ==
    IF hi - lo <= 1
    THEN lo
    ELSE LET mid == (lo + hi) \div 2 IN
         IF mid * mid <= v THEN bisect(mid, hi, v) ELSE bisect(lo, mid, v)
\* a ** 0.5 for 0 <= a <= 1.0
sqrt(a) == bisect(0, Scale + 1, a * Scale)

\* constants.G74.x_r_33 = 2.76, in hundredths, and the ratios the parameters
\* are derived for
x_r_33 == 276
Ratios == 1..MaxRatio
\* rzero = 10000.0 and xzero = 10000.0
G74_rzero == 10000 * Scale
G74_xzero == 10000 * Scale

\* x11 taken from rpos instead of rpos ** 2
G74_x11_unsquared(rpos) == sqrt(One - rpos)

\* x11 = (1.0-rpos**2)**0.5
G74_x11(rpos) == sqrt(One - sq(rpos))
\* rpos = (1.0/(1.0+x_r_33**2))**0.5
G74_rpos(x_r) == sqrt(quot(One, One + sq((x_r * Scale) \div 100)))

\* The body of class G74 for an X/R ratio (in hundredths)
G74(x_r) ==
    [cls |-> "G74", x_r_33 |-> x_r, rpos |-> G74_rpos(x_r), x11 |-> G74_x11(G74_rpos(x_r)),
     rzero |-> G74_rzero, xzero |-> G74_xzero]

\* g74.constants has not been imported yet
InitG74 ==
    /\ ControlInit
    /\ study = Study_init
    /\ idev = NoFile
    /\ wkbk = Workbook_init
    /\ column = <<>>
    /\ gui = MainGUI_init

\* g74.constants is imported: the body of class G74 is run
Do_G74 ==
    /\ obj = NoObject
    /\ \E x_r \in Ratios :
          /\ obj' = G74(x_r)
          /\ last' = [op |-> "G74", arg |-> None, calls |-> <<>>, exc |-> NoExc,
                      ret |-> NoValue, pre |-> NoValue]
    /\ UNCHANGED <<ctlVars, pc, auxVars>>

NextG74 == Do_G74

SpecG74 == InitG74 /\ [][NextG74]_vars

\* ------------------------------------------------------------ claims
\* The last method run is a conversion: convert_sav_case, called directly or
\* by main.
Converting == last.op \in {"convert_sav_case", "main"}
Finished == pc = "idle"
Cong == FnIdx(last.calls, "cong")
Conl == FnIdx(last.calls, "conl")
Raised == last.exc # NoExc

\* C1: a convert_sav_case that returns leaves converted = True, and a
\* convert_sav_case called in state converted (so: right after one that
\* returned) calls neither cong nor conl and leaves converted = True.
C1_ConvertTwice ==
    /\ (last.op = "convert_sav_case" /\ Finished /\ ~Raised) => converted
    /\ (last.op = "convert_sav_case" /\ last.pre.converted)
          => converted /\ Cong = {} /\ Conl = {} /\ (Finished => ~Raised)

C1_Witness ==
    /\ last.op = "convert_sav_case" /\ Finished /\ last.pre.converted
    /\ Len(last.calls) = 2

\* C2 as stated: every load_data_case called while converted = True ends with
\* converted = False.
C2_Original ==
    (last.op = "load_data_case" /\ Finished /\ last.pre.converted) => ~converted

\* C2 (amended): a load_data_case called while converted = True that returns
\* ends with converted = False; one that raises leaves converted = True.
C2_ReloadResets ==
    (last.op = "load_data_case" /\ Finished /\ last.pre.converted)
       => (converted <=> Raised)

C2_Witness ==
    /\ last.op = "load_data_case" /\ Finished /\ last.pre.converted
    /\ ~Raised /\ ~converted /\ last.arg = None

\* C3: in a conversion started in state unconverted every conl call comes
\* after the cong call, and converted is True only once cong has returned a
\* status convert_gen accepts and the finalising conl call has returned 0.
C3_GenBeforeLoad ==
    (Converting /\ ~last.pre.converted) =>
       /\ \A k \in Conl : \E j \in Cong : j < k
       /\ converted =>
             /\ ~Raised
             /\ \E j \in Cong, k \in CallIdx(last.calls, "conl", 3) :
                   /\ j < k
                   /\ last.calls[j].ierr \notin {1, 3, 4, 5}
                   /\ last.calls[k].ierr = 0

C3_Witness ==
    /\ last.op = "convert_sav_case" /\ Finished /\ ~last.pre.converted /\ converted
    /\ Cong # {} /\ Conl # {}

\* The apply calls (conl with apiopt=2) of the last method.
Apply == CallIdx(last.calls, "conl", 2)
\* convert_load gave up on its iteration bound: the last engine call is an
\* apply call that returned status 0, and SyntaxError was raised.
IterationBound ==
    /\ last.exc = "SyntaxError"
    /\ Len(last.calls) \in Apply
    /\ last.calls[Len(last.calls)].ierr = 0

\* C4 as stated: at most 3 apply calls are made, and the iteration-bound error
\* is raised only when the last apply call left unconverted loads.
C4_Original ==
    Converting =>
       /\ Cardinality(Apply) <= 3
       /\ IterationBound => last.calls[Len(last.calls)].val > 0

\* The conl calls of the last method, in order.
IsConl(c) == c.f = "conl"
ConlCalls == SelectSeq(last.calls, IsConl)

\* C5: a convert_load that returned made the calls: initialise, then apply
\* calls of which only the last reports 0 unconverted loads, then finalise;
\* a conl call that returns an error status is the last engine call made and
\* ValueError is raised.
C5_LoadSequence ==
    Converting =>
       /\ (converted /\ ~last.pre.converted) =>
             LET n == Len(ConlCalls) IN
             /\ n >= 3
             /\ ConlCalls[1].opt = 1
             /\ ConlCalls[n].opt = 3
             /\ \A k \in 2..(n - 1) :
                   /\ ConlCalls[k].opt = 2
                   /\ (ConlCalls[k].val = 0) <=> (k = n - 1)
             /\ \A k \in 1..n : ConlCalls[k].ierr = 0
       /\ \A k \in Conl :
             last.calls[k].ierr > 0 =>
                /\ k = Len(last.calls)
                /\ Finished /\ last.exc = "ValueError"
                /\ ~converted

C5_Witness ==
    /\ last.op = "convert_sav_case" /\ Finished
    /\ converted /\ ~last.pre.converted
    /\ Len(ConlCalls) = 4

\* C6 as stated: whenever cong returned a non-zero status the call raises, no
\* conl call is made and converted stays False.
C6_Original ==
    Converting =>
       \A j \in Cong :
          last.calls[j].ierr # 0 => Finished /\ Raised /\ Conl = {} /\ ~converted

\* C6 (amended): when cong returned status 1, 3, 4 or 5 the call raises, no
\* conl call is made and converted stays False; status 2 (generators already
\* converted) is only a warning and the conversion goes on to convert_load.
C6_GenFailureFatal ==
    Converting =>
       \A j \in Cong :
          /\ last.calls[j].ierr \in {1, 3, 4, 5}
                => Finished /\ Raised /\ Conl = {} /\ ~converted /\ j = Len(last.calls)
          /\ last.calls[j].ierr = 2
                => (pc = "convert_load" /\ ~Raised) \/ Conl # {}

C6_Witness ==
    /\ last.op = "convert_sav_case" /\ Finished
    /\ \E j \in Cong : last.calls[j].ierr = 3
    /\ last.exc = "ValueError"

\* The induction machine counts of the last method.
IndCount == FnIdx(last.calls, "aindmaccount")

\* C7: in a conversion where the engine reported the number of induction
\* machines, cong is the next engine call and nothing is raised before cong
\* has answered; with a count above zero bkdy_issue is True from then on, with
\* a count of zero bkdy_issue is as it was before the call.
C7_InductionFlag ==
    Converting =>
       \A k \in IndCount :
          last.calls[k].ierr = 0 =>
             /\ k + 1 \in Cong
             /\ (last.calls[k + 1].ierr \in {0, 2} /\ Len(last.calls) = k + 1) => ~Raised
             /\ last.calls[k].val > 0 => bkdy_issue
             /\ last.calls[k].val = 0 => (bkdy_issue = last.pre.bkdy_issue)

C7_Witness ==
    /\ last.op = "convert_sav_case" /\ Finished /\ ~Raised
    /\ ~last.pre.bkdy_issue /\ bkdy_issue
    /\ \E k \in IndCount : last.calls[k].val > 0 /\ k + 1 \in Cong

\* C8: whatever the statuses of ordr and fact, fact is called right after
\* ordr, nothing is raised and converted is True.
C8_OrderFactNonFatal ==
    Converting =>
       \A k \in FnIdx(last.calls, "ordr") :
          /\ k + 1 \in FnIdx(last.calls, "fact")
          /\ ~Raised
          /\ converted
          /\ (last.op = "convert_sav_case" => Finished /\ Len(last.calls) = k + 1)

C8_Witness ==
    /\ last.op = "convert_sav_case" /\ Finished /\ ~Raised /\ converted
    /\ \E k \in FnIdx(last.calls, "ordr") :
          last.calls[k].ierr > 0 /\ last.calls[k + 1].ierr > 0

\* The last method is one of the query accessors.
Querying == last.op \in {"BusData", "MachineData.update", "get_count"}

\* C9: when an engine query of BusData.update (get_voltages included),
\* MachineData.update or get_count returned a non-zero status, SyntaxError is
\* raised, nothing is returned and the object's fields are as they were.
C9_QueryFailureFatal ==
    (Querying /\ \E k \in 1..Len(last.calls) : last.calls[k].ierr # 0) =>
       /\ last.exc = "SyntaxError"
       /\ last.ret = NoValue
       /\ obj = last.pre

C9_Witness ==
    /\ last.op = "BusData"
    /\ \E k \in FnIdx(last.calls, "abusreal") : last.calls[k].ierr # 0
    /\ last.exc = "SyntaxError"

\* C10 as stated: when bkdy returned a non-zero status main raises.
C10_Original ==
    (last.op = "main" /\ Finished /\ \E k \in FnIdx(last.calls, "bkdy") : last.calls[k].ierr # 0)
       => Raised

\* C12: whenever main is about to call bkdy, and once it has called it,
\* converted is True, also when the model was unconverted when main began.
C12_SolverOnConverted ==
    /\ pc = "bkdy" => converted
    /\ (last.op = "main" /\ FnIdx(last.calls, "bkdy") # {}) => converted

C12_Witness ==
    /\ last.op = "main" /\ Finished /\ ~last.pre.converted
    /\ FnIdx(last.calls, "bkdy") # {} /\ Cong # {} /\ converted

\* worksheet_name_checker has just been called with the name last.arg on the
\* workbook last.pre
Checked == last.op = "worksheet_name_checker"
Taken(k) == format_sheet_name(last.arg, k) \in last.pre.sheets

\* C16: worksheet_name_checker returns the requested name when the workbook has
\* no sheet of that name; when it has one and the checker returns, it returns
\* name(k) for the smallest k >= 1 with name(k) not an existing sheet; a
\* returned name is never the name of an existing sheet and the workbook keeps
\* exactly the sheets it had.
C16_NameChecker ==
    Checked =>
       /\ last.arg \notin last.pre.sheets => (last.exc = NoExc /\ last.ret = last.arg)
       /\ (last.arg \in last.pre.sheets /\ last.exc = NoExc) =>
             \E k \in 1..(MaxSheets + 1) :
                /\ last.ret = format_sheet_name(last.arg, k)
                /\ ~Taken(k)
                /\ \A j \in 1..(k - 1) : Taken(j)
       /\ last.exc = NoExc => last.ret \notin last.pre.sheets
       /\ wkbk = last.pre

C16_Witness ==
    /\ Checked /\ last.arg = "TEST" /\ last.exc = NoExc
    /\ {"TEST", "TEST(1)", "TEST(3)"} \subseteq last.pre.sheets
    /\ last.ret = "TEST(2)"

\* C17: worksheet_name_checker always ends and looks up at most 100 + 2 names;
\* it raises StopIteration when the name and name(1)..name(100) all exist; a
\* name it returns never has a suffix above 100; and it does not raise while
\* some name(k) with k <= 100 is free.
C17_AttemptCap ==
    Checked =>
       /\ last.exc \in {NoExc, "StopIteration"}
       /\ Len(last.calls) <= MaxAttempts + 2
       /\ (last.arg \in last.pre.sheets /\ \A k \in 1..MaxAttempts : Taken(k))
             => last.exc = "StopIteration"
       /\ last.exc = NoExc =>
             \A k \in (MaxAttempts + 1)..(MaxSheets + 2) :
                last.ret # format_sheet_name(last.arg, k)
       /\ (\E k \in 1..MaxAttempts : ~Taken(k)) => last.exc = NoExc

C17_Witness ==
    /\ Checked /\ last.exc = "StopIteration"
    /\ ~Taken(MaxAttempts + 1)
    /\ Len(last.calls) = MaxAttempts + 2

\* C19: whatever text is in the fault-times box, the list MainGUI.process
\* stores in fault_times is non-empty and holds only non-negative times.
C19_Original ==
    last.op = "process" =>
       /\ gui.fault_times # <<>>
       /\ \A k \in 1..Len(gui.fault_times) : gui.fault_times[k] >= 0

\* An entry of the spreadsheet is numeric when it is a number or a text that
\* reads as a number; a blank cell and any other text are not.
Numeric(cell) ==
    \/ cell.type = "int"
    \/ cell.type = "str" /\ cell.v # <<>> /\
       \A k \in 1..Len(cell.v) : cell.v[k] = "1" \/ (k = 1 /\ Len(cell.v) > 1 /\ cell.v[k] = "-")
NonNumeric(cell) == ~Numeric(cell)

\* C18: import_busbars_list returns exactly the numeric entries of the first
\* column, in their order, and reports exactly the non-numeric ones: of n
\* entries with e non-numeric, n - e are returned and e are reported.
C18_ImportBusbars ==
    last.op = "import_busbars_list" =>
       /\ last.exc = NoExc
       /\ last.ret = SelectSeq(column, Numeric)
       /\ last.pre = SelectSeq(column, NonNumeric)
       /\ Len(last.ret) + Len(last.pre) = Len(column)

C18_Witness ==
    /\ last.op = "import_busbars_list"
    /\ Len(column) = 3 /\ Len(last.ret) = 2 /\ Len(last.pre) = 1
    /\ column[2] = [type |-> "str", v |-> <<"x">>]
    /\ column[3] = [type |-> "str", v |-> <<"1">>]

\* The machines the engine returned to the update of produce_idev (last.arg is
\* the engine's answer): their number, and the record the file is to hold for
\* the k-th of them.
Returned == Len(last.arg.int.array[1])
MachineRecord(k) ==
    <<ToString(last.arg.int.array[1][k]), last.arg.char.array[1][k],
      "0.12", "0.04", "0.12", "0.04",
      ToString(last.arg.real.array[3][k]), ToString(last.arg.real.array[3][k]),
      ToString(last.arg.real.array[2][k]), ToString(last.arg.real.array[2][k]),
      ToString(last.arg.real.array[1][k])>>

Appended == last.op \in {"add_to_idev", "create_breaker_duty_file"} /\ last.exc = NoExc
\* the text written after the last newline before that
TailBefore == IF last.op = "add_to_idev" THEN last.pre.tail ELSE <<>>
CountedInduction == last.calls[CHOOSE k \in IndCount : TRUE].val

\* C15 as stated: the extra zero is appended when induction machines exist and
\* not appended when the model has none.
C15_Original ==
    Appended =>
       /\ CountedInduction > 0 => idev.tail = Append(TailBefore, "0")
       /\ CountedInduction = 0 => idev.tail = TailBefore

\* C15: add_to_idev appends one 0 after the sentinel line whenever the count of
\* induction machines was obtained, also when the count is zero (a count above
\* zero is only logged); when the count cannot be obtained SyntaxError is
\* raised and nothing is appended. After create_breaker_duty_file the file ends
\* with the sentinel line and that 0.
C15_ZeroAlways ==
    /\ Appended =>
          /\ idev.tail = Append(TailBefore, "0")
          /\ idev.lines # <<>> => idev.lines[Len(idev.lines)] = <<"0">>
          /\ last.op = "add_to_idev" => idev.lines = last.pre.lines
    /\ (last.op = "add_to_idev" /\ last.exc # NoExc) =>
          (last.exc = "SyntaxError" /\ idev = last.pre)

C15_Witness ==
    /\ last.op = "create_breaker_duty_file" /\ last.exc = NoExc
    /\ CountedInduction = 0
    /\ Len(idev.lines) = 2 /\ idev.lines[2] = <<"0">> /\ idev.tail = <<"0">>

\* The calls of the solver a study has made, in order
IsSolve(e) == e.f = "bkdy"
SolverCalls == SelectSeq(study.trace, IsSolve)
\* calculate_fault_currents has returned
Calculated == study.pc \in {"save_results", "excel", "reload", "done"}

StepAt(name) ==
    IF \E k \in 1..Len(study.trace) : study.trace[k].f = name
    THEN CHOOSE k \in 1..Len(study.trace) : study.trace[k].f = name
    ELSE 0
\* A conversion of the model is in progress or has made an engine call
ConversionStarted ==
    \/ pc \in {"convert_gen", "convert_load", "ordr"}
    \/ FnIdx(last.calls, "cong") \cup FnIdx(last.calls, "conl") # {}
    \/ study.pc \in {"bkdy", "save_results", "excel", "reload", "done"}

\* C13: in a run of bkdy_study, when a conversion of the model has started (and
\* so before any cong or conl call), identify_machine_parameters,
\* calculate_machine_mva_values and add_machines have been made, in that order.
C13_MachinesBeforeConversion ==
    ConversionStarted =>
       /\ 0 < StepAt("identify_machine_parameters")
       /\ StepAt("identify_machine_parameters") < StepAt("calculate_machine_mva_values")
       /\ StepAt("calculate_machine_mva_values") < StepAt("add_machines")

C13_Witness ==
    /\ study.pc = "converting" /\ pc = "idle" /\ last.exc = NoExc
    /\ FnIdx(last.calls, "cong") # {} /\ FnIdx(last.calls, "conl") # {}
    /\ StepAt("add_machines") = Len(study.trace)

\* C20 as stated: the workbook the study has written holds two sheets with
\* different names, and each sheet holds the status message in its first row
\* and its table below it.
C20_Original ==
    study.pc \in {"reload", "done"} =>
       /\ Cardinality(wkbk.sheets) = 2
       /\ \A sheet \in wkbk.sheets :
             /\ \E c \in wkbk.cells : c.sheet = sheet /\ c.row = 0 /\ c.string \in Messages
             /\ \E c \in wkbk.cells : c.sheet = sheet /\ c.row > 0 /\ c.index # ""

\* C27 as stated: a load_data_case that raises ValueError because the engine
\* could not load the case leaves the stored case path, the case name and the
\* converted flag as they were before the call.
C27_Original ==
    (last.op = "load_data_case" /\ last.exc = "ValueError")
       => /\ sav = last.pre.sav
          /\ sav_name = last.pre.sav_name
          /\ converted = last.pre.converted

\* C28: a save_data_case, with or without a path and whether it returns or
\* raises, leaves the stored case path and name, the converted flag and
\* bkdy_issue as they were, so an argument-less load_data_case after it
\* reloads the same case as before it.
C28_SaveFrame ==
    last.op = "save_data_case"
       => /\ sav = last.pre.sav
          /\ sav_name = last.pre.sav_name
          /\ converted = last.pre.converted
          /\ bkdy_issue = last.pre.bkdy_issue

C28_Witness ==
    /\ last.op = "save_data_case" /\ last.exc = "ValueError"
    /\ last.arg \in Paths /\ sav \in Paths /\ last.arg # sav
    /\ converted

\* C26 as stated: whenever converted is False no conversion has been applied
\* to the loaded model; so a conversion that has ended with converted = False,
\* also one that raised part-way, holds no cong call that the engine answered
\* with status 0 (generators converted).
C26_Original ==
    (Converting /\ Finished /\ ~converted)
       => \A k \in Cong : last.calls[k].ierr # 0

\* C29 as stated: bkdy_issue is True only if induction machines were found in
\* the case that is currently loaded; load_data_case makes no query for
\* induction machines, so right after a load_data_case of another case than
\* the one stored before, nothing has been found in the loaded case and
\* bkdy_issue is False.
C29_Original ==
    (/\ last.op = "load_data_case" /\ Finished /\ ~Raised
     /\ last.arg # None /\ last.arg # last.pre.sav)
       => ~bkdy_issue

\* The field of a line of the idev file that holds column c
Field(line, c) == line[CHOOSE j \in 1..Len(bkdy_col_order) : bkdy_col_order[j] = c]

EmbeddedRecords ==
    {k \in 1..Len(idev.lines) :
        /\ Len(idev.lines[k]) = Len(bkdy_col_order)
        /\ Field(idev.lines[k], identifier) = machine_id}

\* C25 as stated: when the solver has been called in a run of bkdy_study, the
\* idev file it was given holds a record for every equivalent machine that was
\* added to the model for the study.
C25_Original ==
    SolverCalls # <<>> => Cardinality(EmbeddedRecords) = study.embedded

\* C24 as stated: every solver call made by main comes after a completed
\* create_breaker_duty_file on the same object and is given the path that
\* call wrote; so the bfile of a solver call of main is never the empty path
\* the constructor set, and the idev file exists.
C24_Original ==
    (last.op = "main" /\ FnIdx(last.calls, "bkdy") # {})
       => last.arg # "" /\ idev.exists

\* C30 as stated: a click on 'Open exported Excel file' inverts bo_open_excel
\* and leaves bo_reload_sav as it was, and a click on 'Reload initial SAV case
\* on completion' inverts bo_reload_sav and leaves bo_open_excel as it was.
C30_Original ==
    /\ last.op = "tick_open_excel"
          => /\ gui.bo_open_excel # last.pre.bo_open_excel
             /\ gui.bo_reload_sav = last.pre.bo_reload_sav
    /\ last.op = "tick_reload_sav"
          => /\ gui.bo_reload_sav # last.pre.bo_reload_sav
             /\ gui.bo_open_excel = last.pre.bo_open_excel

\* The brackets of the table a nominal voltage lies in: lower < nominal <= upper
Brackets(nominal) ==
    {j \in DOMAIN steady_state_limits :
        /\ steady_state_limits[j].nominal_lower < nominal
        /\ nominal <= steady_state_limits[j].nominal_upper}
\* The largest upper bound of the table
TopVoltage ==
    CHOOSE v \in {steady_state_limits[j].nominal_upper : j \in DOMAIN steady_state_limits} :
       \A j \in DOMAIN steady_state_limits : steady_state_limits[j].nominal_upper <= v

Tolerance == 50
Abs(a) == IF a < 0 THEN -a ELSE a

\* C22: for the parameters derived from an X/R ratio, rpos^2 + x11^2 = 1 and
\* x11 / rpos = the ratio, both within the tolerance, rpos = 1/sqrt(1 + ratio^2)
\* (rpos^2 * (1 + ratio^2) = 1 within the tolerance), and rzero and xzero are
\* the same large constant.
C22_EquivalentMachine ==
    last.op = "G74" =>
       LET x_r == (obj.x_r_33 * Scale) \div 100 IN
       /\ Abs(sq(obj.rpos) + sq(obj.x11) - One) <= Tolerance
       /\ Abs(quot(obj.x11, obj.rpos) - x_r) <= Tolerance
       /\ Abs((sq(obj.rpos) * (One + sq(x_r))) \div Scale - One) <= Tolerance
       /\ obj.rzero = obj.xzero /\ obj.rzero >= 1000 * Scale

C22_Witness ==
    /\ last.op = "G74" /\ obj.x_r_33 = x_r_33
    /\ obj.rpos = 3405 /\ obj.x11 = 9402

====
